---- MODULE Spec2Model ----
(***************************************************************************)
(* Model of src/test/original.c: the reference function suite              *)
(* (add_numbers, square, sum_array, max_of_three, fibonacci, swap,         *)
(* bubble_sort) and the calls a harness makes into it.                     *)
(*                                                                         *)
(* One behaviour is one harness run: Init picks the function (op) and its  *)
(* arguments, the *_enter / call_* action is the call, the loop functions  *)
(* run one source-level step per action, and pc = "done" is the state      *)
(* after the function returned.  Arrays are functions over 0 .. extent-1,  *)
(* so indices are the C indices.  An int is IntBits wide; an operation     *)
(* whose mathematical result does not fit is signed overflow, which C      *)
(* leaves undefined: the model sets ub and lets the result be any int.     *)
(***************************************************************************)
EXTENDS Integers, Sequences, FiniteSets, TLC

VARIABLES
    op,        \* the function the harness calls
    pc,        \* position: "call", a label inside the function, or "done"
    callNo,    \* 1 for the first call, 2 for bubble_sort called again on its result
    a, b, c,   \* arguments a, b, c (ints; for swap, a and b are addresses)
    x,         \* square's argument
    ret,       \* the value returned (0 for void functions)
    arr,       \* the caller-owned array / addressed memory
    n,         \* bubble_sort's n
    len,       \* sum_array's len
    i, j,      \* loop counters
    total,     \* sum_array's accumulator
    stack,     \* fibonacci's call stack, innermost frame last
    ub,        \* TRUE once the run executed undefined behaviour
    \* history variables (not program state)
    entry,     \* arr as it was when the current call was entered
    first,     \* arr as it was when the first bubble_sort call returned
    reads,     \* indices of arr read during the current call
    writes,    \* indices of arr written during the current call
    passCmps,  \* comparisons made so far in the current outer pass
    cmpLog,    \* comparisons made by each completed outer pass, in order
    swapLog,   \* the <<left, right>> value pairs that were swapped
    returned   \* <<k, v>>: some completed call fibonacci(k) returned v

vars == << op, pc, callNo, a, b, c, x, ret, arr, n, len, i, j, total, stack, ub,
           entry, first, reads, writes, passCmps, cmpLog, swapLog, returned >>

----------------------------------------------------------------------------
(* Bounds of the model *)

IntBits == 8       \* width of int in the model (the target's int is wider)
MaxLen == 4        \* largest extent of an array handed to bubble_sort
MaxVal == 1        \* bubble_sort element values are -1 .. MaxVal
MaxSumLen == 2     \* largest extent of an array handed to sum_array
MaxFibN == 10      \* largest argument of fibonacci

INT_MAX == 2^(IntBits - 1) - 1
INT_MIN == 0 - 2^(IntBits - 1)
IntRange == INT_MIN .. INT_MAX
InInt(v) == INT_MIN <= v /\ v <= INT_MAX

\* The values an int expression can yield when its mathematical value is v:
\* v itself when it fits, and otherwise (signed overflow, undefined) any int.
IntResult(v) == IF InInt(v) THEN {v} ELSE IntRange

EmptyArr == [k \in {} |-> 0]
Extent(mem) == Cardinality(DOMAIN mem)
MkArr(s) == [k \in 0 .. Len(s) - 1 |-> s[k + 1]]

----------------------------------------------------------------------------
(* The functions *)

\* Each function is preceded by a faulty variant of it, used to show that the
\* properties below depend on the function as written.

add_numbers_sub(p, q) == p - q
add_numbers(p, q) == p + q

square_result(p) == p * p

max_of_three_stale(p, q, r) ==
    LET max0 == p
        max1 == IF q > max0 THEN q ELSE max0
        max2 == IF r > max0 THEN r ELSE max1
    IN  max2
max_of_three(p, q, r) ==
    LET max0 == p
        max1 == IF q > max0 THEN q ELSE max0
        max2 == IF r > max1 THEN r ELSE max1
    IN  max2

swap_no_temp(mem, p, q) ==
    LET m1 == [mem EXCEPT ![p] = mem[q]]
        m2 == [m1 EXCEPT ![q] = m1[p]]
    IN  m2
swap(mem, p, q) ==
    LET temp == mem[p]
        m1 == [mem EXCEPT ![p] = mem[q]]
        m2 == [m1 EXCEPT ![q] = temp]
    IN  m2

\* i < len
sum_cond_incl(k, l) == k <= l
sum_cond(k, l) == k < l

\* i < n - 1
outer_cond_short(k, m) == k < m - 2
outer_cond(k, m) == k < m - 1

\* j < n - i - 1
inner_cond_over(k, m, p) == k < m - p
inner_cond_short(k, m, p) == k < m - p - 2
inner_cond(k, m, p) == k < m - p - 1

\* arr[j] > arr[j + 1]
swap_cond_desc(l, r) == l < r
swap_cond_ge(l, r) == l >= r
swap_cond(l, r) == l > r

\* n <= 1
fib_base_zero(m) == m <= 0
fib_base(m) == m <= 1

----------------------------------------------------------------------------
(* Initial states: the harness about to make one call *)

Start(o, pa, pb, pcc, px, mem, pn, plen, stk) ==
    /\ op = o /\ pc = "call" /\ callNo = 1
    /\ a = pa /\ b = pb /\ c = pcc /\ x = px /\ ret = 0
    /\ arr = mem /\ n = pn /\ len = plen
    /\ i = 0 /\ j = 0 /\ total = 0
    /\ stack = stk /\ ub = FALSE
    /\ entry = mem /\ first = EmptyArr
    /\ reads = {} /\ writes = {}
    /\ passCmps = 0 /\ cmpLog = << >> /\ swapLog = {} /\ returned = {}

Vals == (0 - 1) .. MaxVal
ScalarVals == {INT_MIN, 0 - 12, 0 - 1, 0, 1, 3, 4, 5, 7, 11, 12, INT_MAX}
SumVals == {0 - 1, 1, 2, INT_MAX, INT_MIN}
MinFibN == 0 - 2

Init ==
    \/ \E pa \in ScalarVals, pb \in ScalarVals :
          Start("add_numbers", pa, pb, 0, 0, EmptyArr, 0, 0, << >>)
    \/ \E px \in ScalarVals :
          Start("square", 0, 0, 0, px, EmptyArr, 0, 0, << >>)
    \/ \E pa \in Vals \cup {2, 3, 5, 7}, pb \in Vals \cup {2, 3, 5, 7},
          pcc \in Vals \cup {2, 3, 5, 7} :
          Start("max_of_three", pa, pb, pcc, 0, EmptyArr, 0, 0, << >>)
    \/ \E L \in 0 .. MaxSumLen : \E mem \in [0 .. L - 1 -> SumVals] :
          \E plen \in (0 - 1) .. L :
             Start("sum_array", 0, 0, 0, 0, mem, 0, plen, << >>)
    \/ Start("sum_array", 0, 0, 0, 0, MkArr(<<1, 2, 3, 4, 5>>), 0, 5, << >>)
    \/ \E m \in MinFibN .. MaxFibN :
          Start("fibonacci", 0, 0, 0, 0, EmptyArr, m, 0, << >>)
    \/ \E L \in 1 .. 3 : \E mem \in [0 .. L - 1 -> Vals] :
          \E pa \in 0 .. L - 1, pb \in 0 .. L - 1 :
             Start("swap", pa, pb, 0, 0, mem, 0, 0, << >>)
    \/ \E L \in 0 .. MaxLen : \E mem \in [0 .. L - 1 -> Vals] :
          \E pn \in (0 - 1) .. L :
             Start("bubble_sort", 0, 0, 0, 0, mem, pn, 0, << >>)
    \/ Start("bubble_sort", 0, 0, 0, 0, MkArr(<<5, 2, 8, 1, 9>>), 5, 0, << >>)

----------------------------------------------------------------------------
(* add_numbers, square, max_of_three, swap: one call, one step *)

call_add_numbers ==
    /\ op = "add_numbers" /\ pc = "call"
    /\ ret' \in IntResult(add_numbers(a, b))
    /\ ub' = ~InInt(add_numbers(a, b))
    /\ pc' = "done"
    /\ UNCHANGED << op, callNo, a, b, c, x, arr, n, len, i, j, total, stack,
                    entry, first, reads, writes, passCmps, cmpLog, swapLog, returned >>

call_square ==
    /\ op = "square" /\ pc = "call"
    /\ ret' \in IntResult(square_result(x))
    /\ ub' = ~InInt(square_result(x))
    /\ pc' = "done"
    /\ UNCHANGED << op, callNo, a, b, c, x, arr, n, len, i, j, total, stack,
                    entry, first, reads, writes, passCmps, cmpLog, swapLog, returned >>

call_max_of_three ==
    /\ op = "max_of_three" /\ pc = "call"
    /\ ret' = max_of_three(a, b, c)
    /\ pc' = "done"
    /\ UNCHANGED << op, callNo, a, b, c, x, arr, n, len, i, j, total, stack, ub,
                    entry, first, reads, writes, passCmps, cmpLog, swapLog, returned >>

call_swap ==
    /\ op = "swap" /\ pc = "call"
    /\ arr' = swap(arr, a, b)
    /\ reads' = {a, b}
    /\ writes' = {a, b}
    /\ pc' = "done"
    /\ UNCHANGED << op, callNo, a, b, c, x, ret, n, len, i, j, total, stack, ub,
                    entry, first, passCmps, cmpLog, swapLog, returned >>

----------------------------------------------------------------------------
(* sum_array *)

sum_array_enter ==
    /\ op = "sum_array" /\ pc = "call"
    /\ total' = 0
    /\ i' = 0
    /\ pc' = "sum_loop"
    /\ UNCHANGED << op, callNo, a, b, c, x, ret, arr, n, len, j, stack, ub,
                    entry, first, reads, writes, passCmps, cmpLog, swapLog, returned >>

sum_array_loop ==
    /\ op = "sum_array" /\ pc = "sum_loop"
    /\ IF sum_cond(i, len)
       THEN IF i \in DOMAIN arr
            THEN /\ reads' = reads \cup {i}
                 /\ IF InInt(total + arr[i])
                    THEN /\ total' = total + arr[i]
                         /\ i' = i + 1
                         /\ UNCHANGED << pc, ret, ub >>
                    ELSE \* signed overflow in total += arr[i]
                         /\ ub' = TRUE
                         /\ ret' \in IntRange
                         /\ pc' = "done"
                         /\ UNCHANGED << total, i >>
            ELSE \* read outside the array's extent
                 /\ reads' = reads \cup {i}
                 /\ ub' = TRUE
                 /\ ret' \in IntRange
                 /\ pc' = "done"
                 /\ UNCHANGED << total, i >>
       ELSE /\ ret' = total
            /\ pc' = "done"
            /\ UNCHANGED << total, i, reads, ub >>
    /\ UNCHANGED << op, callNo, a, b, c, x, arr, n, len, j, stack,
                    entry, first, writes, passCmps, cmpLog, swapLog, returned >>

----------------------------------------------------------------------------
(* fibonacci: one frame per active call; at is the frame's position.       *)
(* The two recursive calls have no side effects, so the order in which the *)
(* operands of + are evaluated cannot be observed; the model runs          *)
(* fibonacci(n - 1) first.                                                  *)

Frame(m) == [n |-> m, at |-> "body", r1 |-> 0]
Top == stack[Len(stack)]
Pop == SubSeq(stack, 1, Len(stack) - 1)
SetTop(f) == [stack EXCEPT ![Len(stack)] = f]

\* return v from the innermost call
fib_return(v) ==
    /\ ret' = v
    /\ returned' = returned \cup {<< Top.n, v >>}
    /\ stack' = Pop
    /\ pc' = IF Len(stack) = 1 THEN "done" ELSE "fib"

fibonacci_enter ==
    /\ op = "fibonacci" /\ pc = "call"
    /\ stack' = << Frame(n) >>
    /\ pc' = "fib"
    /\ UNCHANGED << op, callNo, a, b, c, x, ret, arr, n, len, i, j, total, ub,
                    entry, first, reads, writes, passCmps, cmpLog, swapLog, returned >>

fibonacci_body ==
    /\ op = "fibonacci" /\ pc = "fib" /\ Top.at = "body"
    /\ IF fib_base(Top.n)
       THEN fib_return(Top.n)
       ELSE /\ stack' = Append(SetTop([Top EXCEPT !.at = "after1"]), Frame(Top.n - 1))
            /\ UNCHANGED << ret, returned, pc >>
    /\ UNCHANGED << op, callNo, a, b, c, x, arr, n, len, i, j, total, ub,
                    entry, first, reads, writes, passCmps, cmpLog, swapLog >>

fibonacci_after1 ==
    /\ op = "fibonacci" /\ pc = "fib" /\ Top.at = "after1"
    /\ stack' = Append(SetTop([Top EXCEPT !.at = "after2", !.r1 = ret]),
                       Frame(Top.n - 2))
    /\ UNCHANGED << op, pc, callNo, a, b, c, x, ret, arr, n, len, i, j, total, ub,
                    entry, first, reads, writes, passCmps, cmpLog, swapLog, returned >>

fibonacci_after2 ==
    /\ op = "fibonacci" /\ pc = "fib" /\ Top.at = "after2"
    /\ \E v \in IntResult(Top.r1 + ret) : fib_return(v)
    /\ ub' = (ub \/ ~InInt(Top.r1 + ret))
    /\ UNCHANGED << op, callNo, a, b, c, x, arr, n, len, i, j, total,
                    entry, first, reads, writes, passCmps, cmpLog, swapLog >>

----------------------------------------------------------------------------
(* bubble_sort *)

bubble_sort_enter ==
    /\ op = "bubble_sort" /\ pc = "call"
    /\ i' = 0
    /\ pc' = "outer"
    /\ UNCHANGED << op, callNo, a, b, c, x, ret, arr, n, len, j, total, stack, ub,
                    entry, first, reads, writes, passCmps, cmpLog, swapLog, returned >>

\* for (int i = 0; i < n - 1; i++): the test, and the start of the inner loop
bubble_sort_outer ==
    /\ op = "bubble_sort" /\ pc = "outer"
    /\ IF outer_cond(i, n)
       THEN /\ j' = 0
            /\ passCmps' = 0
            /\ pc' = "inner"
       ELSE /\ pc' = "done"
            /\ UNCHANGED << j, passCmps >>
    /\ UNCHANGED << op, callNo, a, b, c, x, ret, arr, n, len, i, total, stack, ub,
                    entry, first, reads, writes, cmpLog, swapLog, returned >>

\* for (...; j < n - i - 1; ...): the test, and i++ when the pass is over
bubble_sort_inner ==
    /\ op = "bubble_sort" /\ pc = "inner"
    /\ IF inner_cond(j, n, i)
       THEN /\ pc' = "cmp"
            /\ UNCHANGED << i, cmpLog >>
       ELSE /\ i' = i + 1
            /\ cmpLog' = Append(cmpLog, passCmps)
            /\ pc' = "outer"
    /\ UNCHANGED << op, callNo, a, b, c, x, ret, arr, n, len, j, total, stack, ub,
                    entry, first, reads, writes, passCmps, swapLog, returned >>

\* if (arr[j] > arr[j + 1]) swap(&arr[j], &arr[j + 1]);  then j++
bubble_sort_compare ==
    /\ op = "bubble_sort" /\ pc = "cmp"
    /\ reads' = reads \cup {j, j + 1}
    /\ IF {j, j + 1} \subseteq DOMAIN arr
       THEN /\ IF swap_cond(arr[j], arr[j + 1])
               THEN /\ arr' = swap(arr, j, j + 1)
                    /\ writes' = writes \cup {j, j + 1}
                    /\ swapLog' = swapLog \cup {<< arr[j], arr[j + 1] >>}
               ELSE UNCHANGED << arr, writes, swapLog >>
            /\ passCmps' = passCmps + 1
            /\ j' = j + 1
            /\ pc' = "inner"
            /\ UNCHANGED ub
       ELSE \* access outside the array's extent
            /\ ub' = TRUE
            /\ pc' = "done"
            /\ UNCHANGED << arr, writes, swapLog, passCmps, j >>
    /\ UNCHANGED << op, callNo, a, b, c, x, ret, n, len, i, total, stack,
                    entry, first, cmpLog, returned >>

\* the harness calls bubble_sort a second time, on the result of the first call
bubble_sort_again ==
    /\ op = "bubble_sort" /\ pc = "done" /\ callNo = 1 /\ ~ub
    /\ callNo' = 2
    /\ first' = arr
    /\ entry' = arr
    /\ reads' = {} /\ writes' = {}
    /\ passCmps' = 0 /\ cmpLog' = << >> /\ swapLog' = {}
    /\ pc' = "call"
    /\ UNCHANGED << op, a, b, c, x, ret, arr, n, len, i, j, total, stack, ub, returned >>

----------------------------------------------------------------------------

Next ==
    \/ call_add_numbers
    \/ call_square
    \/ call_max_of_three
    \/ call_swap
    \/ sum_array_enter
    \/ sum_array_loop
    \/ fibonacci_enter
    \/ fibonacci_body
    \/ fibonacci_after1
    \/ fibonacci_after2
    \/ bubble_sort_enter
    \/ bubble_sort_outer
    \/ bubble_sort_inner
    \/ bubble_sort_compare
    \/ bubble_sort_again

Spec == Init /\ [][Next]_vars

\* The program is sequential: whenever a step is possible it is taken.
FairSpec == Spec /\ WF_vars(Next)

----------------------------------------------------------------------------
(* Vocabulary of the properties *)

\* number of occurrences of v among mem[0 .. k-1]
Count(mem, k, v) == Cardinality({q \in 0 .. k - 1 : mem[q] = v})

\* mem1[0 .. k-1] and mem2[0 .. k-1] are the same multiset
SameBag(mem1, mem2, k) ==
    \A v \in {mem1[q] : q \in 0 .. k - 1} \cup {mem2[q] : q \in 0 .. k - 1} :
        Count(mem1, k, v) = Count(mem2, k, v)

IsAscending(mem, k) == \A p \in 0 .. k - 1, q \in 0 .. k - 1 : p < q => mem[p] <= mem[q]

\* The ascending ordering of the multiset mem[0 .. k-1]: position p holds the
\* value v with (number of elements < v) <= p < (number of elements <= v).
\* It is a function of the multiset alone.
AscendingOf(mem, k) ==
    LET vs == {mem[q] : q \in 0 .. k - 1}
        Below(v) == Cardinality({q \in 0 .. k - 1 : mem[q] < v})
        UpTo(v) == Cardinality({q \in 0 .. k - 1 : mem[q] <= v})
    IN  [p \in 0 .. k - 1 |-> CHOOSE v \in vs : Below(v) <= p /\ p < UpTo(v)]

RECURSIVE SumPrefix(_, _)
SumPrefix(mem, k) == IF k <= 0 THEN 0 ELSE SumPrefix(mem, k - 1) + mem[k - 1]

RECURSIVE SumSeq(_)
SumSeq(s) == IF s = << >> THEN 0 ELSE s[1] + SumSeq(Tail(s))

\* the Fibonacci numbers computed by iteration: F(0) = 0, F(1) = 1
RECURSIVE FibLoop(_, _, _)
FibLoop(k, p, q) == IF k = 0 THEN p ELSE FibLoop(k - 1, q, p + q)
FibIter(m) == FibLoop(m, 0, 1)

\* two's-complement wrap of v to IntBits bits
Wrap(v) == ((v - INT_MIN) % 2^IntBits) + INT_MIN

SortDone == op = "bubble_sort" /\ pc = "done"

----------------------------------------------------------------------------
\* C1: when bubble_sort(arr, n) has returned, arr[0 .. n-1] is ascending, is a
\* permutation of what it was at entry, and is the ascending ordering that
\* the entry multiset determines (so all permutations of a multiset sort to
\* the same sequence); main's {5,2,8,1,9} becomes {1,2,5,8,9}.
C1_SortedPermutation ==
    SortDone =>
        /\ ~ub
        /\ DOMAIN arr = DOMAIN entry
        /\ IsAscending(arr, n)
        /\ SameBag(arr, entry, n)
        /\ \A p \in 0 .. n - 1 : arr[p] = AscendingOf(entry, n)[p]

C1_Witness ==
    /\ SortDone /\ callNo = 1
    /\ entry = MkArr(<<5, 2, 8, 1, 9>>)
    /\ arr = MkArr(<<1, 2, 5, 8, 9>>)

\* C2: every index sum_array reads lies in [0, len), every index bubble_sort
\* reads or writes lies in [0, n); the arr[j + 1] access stays below n; n <= 1
\* (and len <= 0) cause no access; elements at index >= n keep their value.
C2_InBounds ==
    /\ op = "sum_array" =>
          /\ reads \subseteq 0 .. len - 1
          /\ writes = {}
          /\ pc = "sum_loop" /\ i < len => i >= 0
    /\ op = "bubble_sort" =>
          /\ reads \subseteq 0 .. n - 1
          /\ writes \subseteq 0 .. n - 1
          /\ pc = "cmp" => 0 <= j /\ j + 1 <= n - 1
          /\ n <= 1 => reads = {} /\ writes = {}
          /\ \A k \in DOMAIN arr : k >= n => arr[k] = entry[k]
          /\ ~ub

C2_Witness ==
    /\ SortDone /\ callNo = 1
    /\ n >= 2 /\ n < Extent(arr)
    /\ reads = 0 .. n - 1
    /\ n - 1 \in writes

\* C3: bubble_sort leaves an ascending (or empty, n = 0) sequence unchanged and
\* makes no swap on it; called again on its own result it returns the same
\* sequence.
C3_SortedUnchangedIdempotent ==
    /\ SortDone /\ IsAscending(entry, n) =>
          arr = entry /\ writes = {} /\ swapLog = {}
    /\ SortDone /\ callNo = 2 => arr = first

C3_Witness ==
    /\ SortDone /\ callNo = 2
    /\ n = Extent(arr) /\ n >= 3
    /\ arr = first
    /\ arr[0] = arr[1] /\ arr[1] < arr[2]

\* C4: after swap(a, b), location a holds b's old value, b holds a's old
\* value, every other location is unchanged; if a and b are the same location
\* its value is unchanged.
C4_SwapExchanges ==
    op = "swap" /\ pc = "done" =>
        /\ DOMAIN arr = DOMAIN entry
        /\ arr[a] = entry[b]
        /\ arr[b] = entry[a]
        /\ \A k \in DOMAIN arr \ {a, b} : arr[k] = entry[k]
        /\ a = b => arr = entry

C4_Witness ==
    /\ op = "swap" /\ pc = "done"
    /\ Extent(arr) = 3 /\ a # b
    /\ entry[a] # entry[b]
    /\ arr[a] = entry[b] /\ arr[b] = entry[a]

\* C5: fibonacci(n) terminates; a call with n <= 1 returns n (negative n
\* included), any other call returns fibonacci(n-1) + fibonacci(n-2);
\* fibonacci(0) = 0, fibonacci(1) = 1, fibonacci(10) = 55, and for n >= 0 the
\* result is the Fibonacci number computed by iteration.
C5_Inv ==
    op = "fibonacci" =>
        /\ ~ub
        /\ Len(stack) <= (IF n > 1 THEN n ELSE 1)
        /\ \A r \in returned :
              /\ r[1] <= 1 => r[2] = r[1]
              /\ r[1] > 1 =>
                    \E r1 \in returned, r2 \in returned :
                        /\ r1[1] = r[1] - 1 /\ r2[1] = r[1] - 2
                        /\ r[2] = r1[2] + r2[2]
              /\ r[1] >= 0 => r[2] = FibIter(r[1])
              /\ \A r2 \in returned : r2[1] = r[1] => r2[2] = r[2]
        /\ pc = "done" =>
              /\ stack = << >>
              /\ << n, ret >> \in returned
              /\ n = 0 => ret = 0
              /\ n = 1 => ret = 1
              /\ n = 10 => ret = 55

C5_Fibonacci ==
    /\ []C5_Inv
    /\ (op = "fibonacci") ~> (op = "fibonacci" /\ pc = "done")

C5_Witness == op = "fibonacci" /\ pc = "done" /\ n = 10 /\ ret = 55

\* C6 as stated: add_numbers returns a + b and square returns x * x, wrapped
\* modulo 2^IntBits into the int range when the mathematical value does not fit.
C6_Wraps ==
    /\ op = "add_numbers" /\ pc = "done" => ret = Wrap(a + b)
    /\ op = "square" /\ pc = "done" => ret = Wrap(x * x)

\* C6 amended: add_numbers returns a + b and square returns x * x whenever
\* that value fits an int; when it does not fit, the call is a signed overflow
\* (undefined behaviour) and the returned int is not determined.
C6_ExactWhenRepresentable ==
    /\ op = "add_numbers" /\ pc = "done" =>
          /\ ret \in IntRange
          /\ InInt(a + b) => ret = a + b /\ ~ub
          /\ ~InInt(a + b) => ub
    /\ op = "square" /\ pc = "done" =>
          /\ ret \in IntRange
          /\ InInt(x * x) => ret = x * x /\ ~ub
          /\ ~InInt(x * x) => ub

C6_Witness == op = "add_numbers" /\ pc = "done" /\ a = 3 /\ b = 4 /\ ret = 7

\* every partial sum arr[0] + ... + arr[k-1], k <= l, fits an int
PartialSumsFit(mem, l) == \A k \in 0 .. l : InInt(SumPrefix(mem, k))

\* C7 as stated: sum_array returns the sum of arr[0 .. len-1] for every len
\* within the extent, 0 when len <= 0, and does not modify the array.
C7_SumExact ==
    op = "sum_array" /\ pc = "done" =>
        /\ ret = SumPrefix(entry, len)
        /\ arr = entry

\* C7 amended: the same, provided every partial sum fits an int.
C7_SumWhenRepresentable ==
    op = "sum_array" =>
        /\ arr = entry
        /\ writes = {}
        /\ pc = "done" /\ PartialSumsFit(entry, len) =>
              /\ ret = SumPrefix(entry, len)
              /\ reads = 0 .. len - 1
              /\ ~ub
        /\ pc = "done" /\ len <= 0 => ret = 0 /\ reads = {}

C7_Witness ==
    /\ op = "sum_array" /\ pc = "done"
    /\ entry = MkArr(<<1, 2, 3, 4, 5>>) /\ len = 5 /\ ret = 15

\* C8: max_of_three(a, b, c) returns one of a, b, c that is >= each of them,
\* also when arguments are equal.
C8_MaxOfThree ==
    op = "max_of_three" /\ pc = "done" =>
        /\ ret \in {a, b, c}
        /\ ret >= a /\ ret >= b /\ ret >= c

C8_Witness ==
    op = "max_of_three" /\ pc = "done" /\ a = 3 /\ b = 7 /\ c = 5 /\ ret = 7

\* C9: bubble_sort has no early exit: for n >= 1 it makes n-1 outer passes,
\* pass i makes n-i-1 comparisons, n(n-1)/2 in all, whatever the contents; it
\* terminates; it swaps only a pair whose left element is strictly greater.
C9_Inv ==
    op = "bubble_sort" =>
        /\ \A k \in 1 .. Len(cmpLog) : cmpLog[k] = n - (k - 1) - 1
        /\ pc \in {"outer", "inner", "cmp"} => Len(cmpLog) = i
        /\ pc \in {"inner", "cmp"} => passCmps = j /\ j <= n - i - 1
        /\ pc = "done" /\ n >= 1 =>
              /\ Len(cmpLog) = n - 1
              /\ 2 * SumSeq(cmpLog) = n * (n - 1)
        /\ pc = "done" /\ n < 1 => cmpLog = << >>
        /\ \A p \in swapLog : p[1] > p[2]

C9_NoEarlyExit ==
    /\ []C9_Inv
    /\ (op = "bubble_sort") ~> SortDone

C9_Witness ==
    /\ SortDone /\ callNo = 2
    /\ n = 3 /\ IsAscending(entry, n)
    /\ cmpLog = <<2, 1>>

\* C10: with i outer passes completed, arr[n-i .. n-1] is ascending, holds the
\* i largest of the n elements (each >= every element before it, and equal to
\* the final ordering there), and no later step writes it; the multiset of
\* arr[0 .. n-1] never changes.
C10_Inv ==
    op = "bubble_sort" /\ pc \in {"outer", "inner", "cmp", "done"} =>
        /\ SameBag(arr, entry, n)
        /\ i <= (IF n >= 1 THEN n - 1 ELSE 0)
        /\ \A q \in n - i .. n - 1 :
              /\ \A p \in 0 .. q - 1 : arr[p] <= arr[q]
              /\ arr[q] = AscendingOf(entry, n)[q]
        /\ pc \in {"inner", "cmp"} =>
              \A p \in 0 .. j - 1 : arr[p] <= arr[j]

C10_Frozen ==
    op = "bubble_sort" /\ pc \in {"outer", "inner", "cmp"} =>
        \A q \in n - i .. n - 1 : arr'[q] = arr[q]

C10_LoopInvariant == []C10_Inv /\ [][C10_Frozen]_vars

C10_Witness ==
    /\ op = "bubble_sort" /\ pc = "outer" /\ callNo = 1
    /\ i = 1 /\ n = 3
    /\ arr # entry /\ ~IsAscending(arr, n)
    /\ arr[2] = 1 /\ arr[1] < arr[0]

====
